---- MODULE Spec2Model ----
(***************************************************************************)
(* Fides Vera: the conversation store (MemStorage), the RAG orchestrator   *)
(* (RAGService.processQuery), the completion binding (GroqService) and the *)
(* retriever (VectorStore) and the HTTP handlers that drive them, as a     *)
(* state machine.                                                          *)
(*                                                                         *)
(* The specifications share the variables:                                 *)
(*   Spec       the server: concurrent request handlers and the eviction   *)
(*              timer, interleaved at every await (a small store);         *)
(*   SpecStore  the store driven sequentially by one caller, with chats    *)
(*              seeded up to the retention ceilings (20 / 25 / 500).       *)
(*   SpecCalls  the store and its routes called one after the other from   *)
(*              an empty store, with well-formed and malformed arguments;  *)
(*   SpecRetriever  the VectorStore driven through its public methods;     *)
(*   SpecCosine     cosineSimilarity on every pair of small vectors;       *)
(*   SpecPrompt     processQuery up to the completion request, for every   *)
(*              history of a few messages;                                 *)
(*   SpecOps    every operation of the store, called one after the other   *)
(*              on an empty store and on stores at the ceilings.           *)
(***************************************************************************)
EXTENDS Integers, Sequences, FiniteSets, TLC

VARIABLES
    chats,       \* MemStorage.chats: Map<number, Chat>, in insertion order
    messages,    \* MemStorage.messages: Map<number, Message>, in insertion order
    currentIds,  \* MemStorage.currentIds (chats, messages)
    now,         \* the wall clock read by new Date(), in milliseconds
    apiKey,      \* GroqService.apiKey, fixed by the constructor
    tasks,       \* the request handlers: position and locals of each
    running,     \* who holds the (single) JavaScript thread in mid-function
    last,        \* the last call of the sequential caller and its result
    calls,       \* how many calls the sequential caller has made
    vectorStore  \* the VectorStore singleton: documents and documentVectors

vars == <<chats, messages, currentIds, now, apiKey, tasks, running, last, calls,
         vectorStore>>

----------------------------------------------------------------------------
(* Program constants *)

MAX_CHATS_PER_USER == 25
MAX_MESSAGES_TOTAL == 500
MAX_MESSAGES_PER_CHAT == 20
RECENT_MESSAGES == 5
TOP_K == 3
HISTORY_LIMIT == 5

(* Bounds of the model *)

MaxTasks == 3        \* request handlers per behaviour (Spec)
MaxCalls == 2        \* store calls per behaviour (SpecStore, SpecOps)
MaxOps == 4          \* store calls per behaviour (SpecCalls)
MaxDocs == 3         \* documents added to the VectorStore (SpecRetriever)
MaxDim == 2          \* length of the vectors handed to cosineSimilarity (SpecCosine)
MaxHistory == 7      \* length of the history handed to processQuery (SpecPrompt)

----------------------------------------------------------------------------
(* JavaScript values and array helpers *)

NoUser == 0          \* userId null / undefined

\* Who is inside a function that has not returned or awaited yet
None == [by |-> "nobody", at |-> 0]
Handler(t) == [by |-> "handler", at |-> t]
TimerAtChats == [by |-> "timer", at |-> 314]   \* before cleanupOldChats
TimerAtTrim == [by |-> "timer", at |-> 317]    \* before the global trim

Str(s) == [t |-> "string", v |-> s]
NotAString == [t |-> "object", v |-> ""]
NullSources == [isNull |-> TRUE, refs |-> <<>>]
Sources(refs) == [isNull |-> FALSE, refs |-> refs]

Range(s) == {s[i] : i \in DOMAIN s}
MaxOf(S) == CHOOSE x \in S : \A y \in S : x >= y
Ids(s) == {s[i].id : i \in DOMAIN s}

\* Array.prototype.slice(start): the elements from 0-based index start on
\* (a negative start counts from the end).
SliceFrom(s, start) ==
    LET from == IF start < 0 THEN (IF Len(s) + start < 0 THEN 0 ELSE Len(s) + start)
                ELSE start
    IN  SubSeq(s, from + 1, Len(s))

\* Array.prototype.slice(0, end), end >= 0
SliceTo(s, end) == SubSeq(s, 1, IF end < Len(s) THEN end ELSE Len(s))

\* Array.prototype.sort((a, b) => a.createdAt - b.createdAt): ascending by
\* createdAt; the sort is stable, so equal times keep their input order.
\* (A stable three-way partition around the time of the middle element.)
RECURSIVE SortOldestFirst(_)
SortOldestFirst(s) ==
    IF Len(s) <= 1 THEN s
    ELSE LET pivot == s[(Len(s) + 1) \div 2].createdAt
         IN  SortOldestFirst(SelectSeq(s, LAMBDA x : x.createdAt < pivot))
             \o SelectSeq(s, LAMBDA x : x.createdAt = pivot)
             \o SortOldestFirst(SelectSeq(s, LAMBDA x : x.createdAt > pivot))

\* Array.prototype.sort((a, b) => b.createdAt - a.createdAt): descending by
\* createdAt, stable.
RECURSIVE SortNewestFirst(_)
SortNewestFirst(s) ==
    IF Len(s) <= 1 THEN s
    ELSE LET pivot == s[(Len(s) + 1) \div 2].createdAt
         IN  SortNewestFirst(SelectSeq(s, LAMBDA x : x.createdAt > pivot))
             \o SelectSeq(s, LAMBDA x : x.createdAt = pivot)
             \o SortNewestFirst(SelectSeq(s, LAMBDA x : x.createdAt < pivot))

\* Map.delete for every id of a set: the other entries keep their order.
DeleteIds(s, ids) == SelectSeq(s, LAMBDA x : x.id \notin ids)

----------------------------------------------------------------------------
(* MemStorage: the store methods as functions of the maps *)

\* getChat(id): the chat, or undefined
HasChat(chs, id) == \E i \in DOMAIN chs : chs[i].id = id

getChat(chs, id) ==
    IF HasChat(chs, id)
    THEN [found |-> TRUE, chat |-> chs[CHOOSE i \in DOMAIN chs : chs[i].id = id]]
    ELSE [found |-> FALSE, chat |-> [id |-> 0, title |-> "", userId |-> NoUser, createdAt |-> 0]]

\* (mutant) slice(0, 5) for slice(-5)
getMessagesFirstFive(msgs, chatId) ==
    SliceTo(SortOldestFirst(SelectSeq(msgs, LAMBDA m : m.chatId = chatId)),
            RECENT_MESSAGES)

\* getMessagesByChatId(chatId): filter, sort ascending by createdAt, slice(-5)
getMessagesByChatId(msgs, chatId) ==
    SliceFrom(SortOldestFirst(SelectSeq(msgs, LAMBDA m : m.chatId = chatId)),
              0 - RECENT_MESSAGES)

\* createChat after the id was taken: throws unless title is a string
createChatValid(insertChat) == insertChat.title.t = "string"

NewChat(id, insertChat, time) ==
    [id |-> id, title |-> insertChat.title.v, userId |-> insertChat.userId,
     createdAt |-> time]

\* createMessage after the id was taken: throws unless chatId is a number and
\* role and content are strings
createMessageValid(insertMessage) ==
    /\ insertMessage.chatId.t = "number"
    /\ insertMessage.role.t = "string"
    /\ insertMessage.content.t = "string"

NewMessage(id, insertMessage, time) ==
    [id |-> id, chatId |-> insertMessage.chatId.v, role |-> insertMessage.role.v,
     content |-> insertMessage.content.v, createdAt |-> time,
     sources |-> insertMessage.sources]

\* updateChatTitle(id, title): Map.set on an existing key keeps its position
updateChatTitle(chs, id, title) ==
    [i \in DOMAIN chs |-> IF chs[i].id = id THEN [chs[i] EXCEPT !.title = title]
                          ELSE chs[i]]

\* deleteChat, after the await: delete the messages read before it, then the chat
deleteChatMessages(msgs, chatMessages) == DeleteIds(msgs, Ids(chatMessages))

deleteChatEntry(chs, id) == SelectSeq(chs, LAMBDA c : c.id # id)

\* cleanupOldMessages: per chat id, newest first, drop all after the first 20
ChatIdsOf(msgs) == {msgs[i].chatId : i \in DOMAIN msgs}

OldMessagesOf(msgs, chatId) ==
    LET group == SelectSeq(msgs, LAMBDA m : m.chatId = chatId)
    IN  IF Len(group) <= MAX_MESSAGES_PER_CHAT THEN {}
        ELSE Ids(SliceFrom(SortNewestFirst(group), MAX_MESSAGES_PER_CHAT))

cleanupOldMessages(msgs) ==
    DeleteIds(msgs, UNION {OldMessagesOf(msgs, c) : c \in ChatIdsOf(msgs)})

\* cleanupOldChats: per user (userId || 1), newest first, drop all after the
\* first 25 together with their messages
OwnerKey(chat) == IF chat.userId = NoUser THEN 1 ELSE chat.userId

\* (mutant) the chats are sorted oldest first, so the newest are dropped
OldChatsOfOldestKept(chs, userId) ==
    LET group == SelectSeq(chs, LAMBDA c : OwnerKey(c) = userId)
    IN  IF Len(group) <= MAX_CHATS_PER_USER THEN {}
        ELSE Ids(SliceFrom(SortOldestFirst(group), MAX_CHATS_PER_USER))

OldChatsOf(chs, userId) ==
    LET group == SelectSeq(chs, LAMBDA c : OwnerKey(c) = userId)
    IN  IF Len(group) <= MAX_CHATS_PER_USER THEN {}
        ELSE Ids(SliceFrom(SortNewestFirst(group), MAX_CHATS_PER_USER))

OwnerKeys(chs) == {OwnerKey(chs[i]) : i \in DOMAIN chs}

OldChats(chs) == UNION {OldChatsOf(chs, userId) : userId \in OwnerKeys(chs)}

cleanupOldChats(chs, msgs) ==
    LET gone == OldChats(chs)
    IN  [chats |-> DeleteIds(chs, gone),
         messages |-> SelectSeq(msgs, LAMBDA m : m.chatId \notin gone)]

\* (mutant) the messages are sorted newest first, so the newest are dropped
trimNewestMessages(msgs) ==
    IF Len(msgs) > MAX_MESSAGES_TOTAL
    THEN DeleteIds(msgs, Ids(SliceTo(SortNewestFirst(msgs), Len(msgs) - MAX_MESSAGES_TOTAL)))
    ELSE msgs

\* cleanupOldData, after the two passes: the global ceiling
trimOldestMessages(msgs) ==
    IF Len(msgs) > MAX_MESSAGES_TOTAL
    THEN DeleteIds(msgs, Ids(SliceTo(SortOldestFirst(msgs), Len(msgs) - MAX_MESSAGES_TOTAL)))
    ELSE msgs

cleanupOldData(chs, msgs) ==
    LET afterChats == cleanupOldChats(chs, cleanupOldMessages(msgs))
    IN  [chats |-> afterChats.chats,
         messages |-> trimOldestMessages(afterChats.messages),
         beforeTrim |-> afterChats.messages]

----------------------------------------------------------------------------
(* VectorStore: keyword search over the documents loaded at start-up *)

\* The corpus handed to addDocumentWithoutEmbedding, in store order. A text is
\* known by the query words it contains as substrings.
Documents ==
    << [id |-> 1, title |-> "Catechism: Profession of Faith", words |-> {"faith", "hope"}],
       [id |-> 2, title |-> "Lumen Gentium", words |-> {"faith"}],
       [id |-> 3, title |-> "Humanae Vitae", words |-> {}],
       [id |-> 4, title |-> "Gospels", words |-> {"hope", "charity", "of"}] >>

\* The VectorStore after RAGService.initializeVectorStore: every document of
\* the storage added without an embedding
LoadedVectorStore == [documents |-> Documents, documentVectors |-> <<>>]

\* query.toLowerCase().split(/\s+/), for the request bodies of the model
Keywords(query) ==
    CASE query = "faith hope" -> <<"faith", "hope">>
      [] query = "hope of charity" -> <<"hope", "of", "charity">>
      [] query = "faith faith hope" -> <<"faith", "faith", "hope">>
      [] query = " " -> <<"", "">>
      [] OTHER -> <<"">>

\* (mutant) query === "" for !query.trim()
IsEmptyString(query) == query = ""

\* !query.trim()
IsBlank(query) == query \in {"", " "}

\* keyword.length
WordLength(w) ==
    CASE w = "" -> 0
      [] w = "of" -> 2
      [] w = "faith" -> 5
      [] w = "hope" -> 4
      [] OTHER -> 7

SourceOf(document, num, den) ==
    [id |-> document.id, title |-> document.title,
     relevanceScore |-> [num |-> num, den |-> den]]

\* matchCount of one document
MatchCount(document, keywords) ==
    Cardinality({i \in DOMAIN keywords :
                    WordLength(keywords[i]) > 2 /\ keywords[i] \in document.words})

\* results.sort((a, b) => b.relevanceScore - a.relevanceScore): descending by
\* score, stable. All scores of one search share the denominator.
RECURSIVE ByScoreFrom(_, _)
ByScoreFrom(s, nums) ==
    IF nums = {} THEN <<>>
    ELSE LET n == MaxOf(nums)
         IN  SelectSeq(s, LAMBDA r : r.relevanceScore.num = n) \o ByScoreFrom(s, nums \ {n})

SortByScore(s) == ByScoreFrom(s, {s[i].relevanceScore.num : i \in DOMAIN s})

searchByKeywords(documents, query, limit) ==
    IF IsBlank(query)
    THEN [i \in DOMAIN SliceTo(documents, limit) |-> SourceOf(documents[i], 1, 1)]
    ELSE LET keywords == Keywords(query)
             results == [i \in DOMAIN documents |->
                            SourceOf(documents[i], MatchCount(documents[i], keywords),
                                     Len(keywords))]
         IN  SliceTo(SortByScore(results), limit)

(* Cosine similarity. A similarity is kept exact as the three sums of the
   loop: it stands for dotProduct / (sqrt(normA) * sqrt(normB)), and for 0
   when a norm is 0. *)

RECURSIVE SumTo(_, _)
SumTo(f, n) == IF n = 0 THEN 0 ELSE SumTo(f, n - 1) + f[n]

Number(dotProduct, normA, normB) ==
    [threw |-> FALSE, dotProduct |-> dotProduct, normA |-> normA, normB |-> normB]
Zero == Number(0, 1, 1)
Thrown == [threw |-> TRUE, dotProduct |-> 0, normA |-> 1, normB |-> 1]

Sign(n) == IF n > 0 THEN 1 ELSE IF n < 0 THEN 0 - 1 ELSE 0

\* x > y and x = y for two similarities (the norms are positive)
Above(x, y) ==
    Sign(x.dotProduct) * x.dotProduct * x.dotProduct * y.normA * y.normB
        > Sign(y.dotProduct) * y.dotProduct * y.dotProduct * x.normA * x.normB
SameNumber(x, y) == ~ Above(x, y) /\ ~ Above(y, x)

\* (mutant) the zero-norm test placed before the length test
cosineSimilarityZeroFirst(vecA, vecB) ==
    LET n == IF Len(vecA) < Len(vecB) THEN Len(vecA) ELSE Len(vecB)
        normA == SumTo([i \in 1..Len(vecA) |-> vecA[i] * vecA[i]], Len(vecA))
        normB == SumTo([i \in 1..Len(vecB) |-> vecB[i] * vecB[i]], Len(vecB))
    IN  IF normA = 0 \/ normB = 0 THEN Zero
        ELSE IF Len(vecA) # Len(vecB) THEN Thrown
        ELSE Number(SumTo([i \in 1..n |-> vecA[i] * vecB[i]], n), normA, normB)

\* (mutant) without the zero-norm test: the division by a zero norm is
\* kept as a number with that norm
cosineSimilarityNoZeroTest(vecA, vecB) ==
    IF Len(vecA) # Len(vecB) THEN Thrown
    ELSE LET n == Len(vecA)
         IN  Number(SumTo([i \in 1..n |-> vecA[i] * vecB[i]], n),
                    SumTo([i \in 1..n |-> vecA[i] * vecA[i]], n),
                    SumTo([i \in 1..n |-> vecB[i] * vecB[i]], n))

\* (mutant) normB accumulated from vecA
cosineSimilarityByFirstNorm(vecA, vecB) ==
    IF Len(vecA) # Len(vecB) THEN Thrown
    ELSE LET n == Len(vecA)
             dotProduct == SumTo([i \in 1..n |-> vecA[i] * vecB[i]], n)
             normA == SumTo([i \in 1..n |-> vecA[i] * vecA[i]], n)
         IN  IF normA = 0 THEN Zero ELSE Number(dotProduct, normA, normA)

\* cosineSimilarity(vecA, vecB): throws on different lengths, else 0 for a
\* zero norm, else dotProduct / (sqrt(normA) * sqrt(normB))
cosineSimilarity(vecA, vecB) ==
    IF Len(vecA) # Len(vecB) THEN Thrown
    ELSE LET n == Len(vecA)
             dotProduct == SumTo([i \in 1..n |-> vecA[i] * vecB[i]], n)
             normA == SumTo([i \in 1..n |-> vecA[i] * vecA[i]], n)
             normB == SumTo([i \in 1..n |-> vecB[i] * vecB[i]], n)
         IN  IF normA = 0 \/ normB = 0 THEN Zero
             ELSE Number(dotProduct, normA, normB)

\* results.sort((a, b) => b.relevanceScore - a.relevanceScore) for
\* similarities: descending, stable
RECURSIVE SortBySimilarity(_)
SortBySimilarity(s) ==
    IF Len(s) <= 1 THEN s
    ELSE LET pivot == s[(Len(s) + 1) \div 2].relevanceScore
         IN  SortBySimilarity(SelectSeq(s, LAMBDA r : Above(r.relevanceScore, pivot)))
             \o SelectSeq(s, LAMBDA r : SameNumber(r.relevanceScore, pivot))
             \o SortBySimilarity(SelectSeq(s, LAMBDA r : Above(pivot, r.relevanceScore)))

SimilarityOf(document, score) ==
    [id |-> document.id, title |-> document.title, relevanceScore |-> score]

\* searchSimilarDocuments(queryVector, limit): without vectors, the keyword
\* search for ""; else every stored vector is scored (the first throw of
\* cosineSimilarity leaves the map and the method), sorted and cut
searchSimilarDocuments(store, queryVector, limit) ==
    IF store.documentVectors = <<>>
    THEN [threw |-> FALSE, results |-> searchByKeywords(store.documents, "", limit)]
    ELSE LET scores == [i \in DOMAIN store.documentVectors |->
                           cosineSimilarity(queryVector, store.documentVectors[i].vector)]
             results == [i \in DOMAIN store.documentVectors |->
                            SimilarityOf(store.documentVectors[i].document, scores[i])]
         IN  IF \E i \in DOMAIN scores : scores[i].threw
             THEN [threw |-> TRUE, results |-> <<>>]
             ELSE [threw |-> FALSE, results |-> SliceTo(SortBySimilarity(results), limit)]

\* addDocumentVector(document, vector)
addDocumentVector(store, document, vector) ==
    [documentVectors |-> Append(store.documentVectors,
                                [document |-> document, vector |-> vector]),
     documents |-> Append(store.documents, document)]

\* addDocumentWithoutEmbedding(document)
addDocumentWithoutEmbedding(store, document) ==
    [store EXCEPT !.documents = Append(@, document)]

\* (mutant) a lookup that reports the first stored document for any id
getFirstDocument(documents, id) ==
    IF documents # <<>>
    THEN [found |-> TRUE, document |-> documents[1]]
    ELSE [found |-> FALSE, document |-> [id |-> 0, title |-> "", words |-> {}]]

\* getDocumentById(id): the document added with that id, or absent
getDocumentById(documents, id) ==
    IF \E i \in DOMAIN documents : documents[i].id = id
    THEN [found |-> TRUE,
          document |-> documents[CHOOSE i \in DOMAIN documents :
                                    /\ documents[i].id = id
                                    /\ \A j \in 1..(i - 1) : documents[j].id # id]]
    ELSE [found |-> FALSE, document |-> [id |-> 0, title |-> "", words |-> {}]]

----------------------------------------------------------------------------
(* GroqService: the completion binding *)

PLACEHOLDER_KEY == "development_placeholder_key"
PLACEHOLDER_RESPONSE ==
    "This is a placeholder response. To get real responses, please set up your GROQ_API_KEY in your environment variables or .env file."

\* constructor: the key of the environment, else the placeholder in
\* development, else the empty string
ConstructorApiKey(envKey, nodeEnv) ==
    IF envKey = "" THEN (IF nodeEnv = "development" THEN PLACEHOLDER_KEY ELSE "")
    ELSE envKey

\* getChatCompletion, up to the fetch: "placeholder" returns at once, "throw"
\* rejects at once, "fetch" awaits the network
CompletionPath(key) ==
    IF key = PLACEHOLDER_KEY THEN "placeholder"
    ELSE IF key = "" THEN "throw"
    ELSE "fetch"

\* (mutant) the messages are sent as they were passed
CleanedMessagesUnchanged(msgs) == msgs

\* cleanedMessages: role and content of every message, nothing else
CleanedMessages(msgs) == [i \in DOMAIN msgs |-> [role |-> msgs[i].role, content |-> msgs[i].content]]

\* What the network call can end in: a completion text, a 200 response whose
\* content is not a string, or a failure (non-2xx status, network error,
\* a body without choices)
FetchOutcomes == {"text", "no_text", "error"}

----------------------------------------------------------------------------
(* The server: request handlers, one step per stretch between two awaits *)

Num(n) == [t |-> "number", v |-> n]

TaskIds == 1..MaxTasks
ChatArgs == {1, 2}                \* req.params.id
Bodies == {"", "faith hope"}      \* req.body.content of POST /api/chats/:id/messages
UserIds == {NoUser, 1}            \* req.body.userId of POST /api/chats

IdleTask ==
    [kind |-> "none", pc |-> "idle", chatId |-> 0, content |-> "", found |-> FALSE,
     read |-> <<>>, sources |-> <<>>, sent |-> <<>>, response |-> Str(""),
     failed |-> FALSE, newId |-> 0, insert |-> [title |-> Str(""), userId |-> NoUser],
     created |-> <<>>, status |-> 0, cause |-> "",
     result |-> [content |-> "", sources |-> <<>>]]

\* The handlers are started in the order of their numbers. Requests arrive a
\* millisecond apart; what runs between two arrivals reads the same time (the
\* order of createdAt is the order of the ids either way).
CanStart(t) ==
    /\ running = None
    /\ tasks[t].pc = "idle"
    /\ \A u \in TaskIds : u < t => tasks[u].pc # "idle"

Resumes(t, pc) == running = None /\ tasks[t].pc = pc

Finish(task, status, cause) ==
    [task EXCEPT !.pc = "done", !.status = status, !.cause = cause,
                 !.read = <<>>, !.newId = 0]

\* previousMessages.map(msg => ({role, content, sources}))
ConversationHistory(previousMessages) ==
    [i \in DOMAIN previousMessages |->
        [role |-> previousMessages[i].role, content |-> previousMessages[i].content,
         sources |-> previousMessages[i].sources]]

\* (mutant) slice(0, 5) for slice(-5)
PromptMessagesFirstFive(conversationHistory, query) ==
    <<[role |-> "system", content |-> "systemPrompt + context", sources |-> NullSources]>>
    \o SliceTo(conversationHistory, HISTORY_LIMIT)
    \o <<[role |-> "user", content |-> query, sources |-> NullSources]>>

\* processQuery: [system, ...conversationHistory.slice(-5), user]
PromptMessages(conversationHistory, query) ==
    <<[role |-> "system", content |-> "systemPrompt + context", sources |-> NullSources]>>
    \o SliceFrom(conversationHistory, 0 - HISTORY_LIMIT)
    \o <<[role |-> "user", content |-> query, sources |-> NullSources]>>

UserInsert(task) ==
    [chatId |-> Num(task.chatId), role |-> Str("user"), content |-> Str(task.content),
     sources |-> NullSources]

\* (mutant) the assistant message is stored without its sources
AssistantInsertWithoutSources(task) ==
    [chatId |-> Num(task.chatId), role |-> Str("assistant"), content |-> task.response,
     sources |-> NullSources]

AssistantInsert(task) ==
    [chatId |-> Num(task.chatId), role |-> Str("assistant"), content |-> task.response,
     sources |-> Sources(task.sources)]

(* POST /api/chats/:id/messages *)

\* routes.ts 158-159: the request arrives, getChat is called and awaited
PostStart(t) ==
    /\ CanStart(t)
    /\ \E c \in ChatArgs, body \in Bodies :
          tasks' = [tasks EXCEPT ![t] = [@ EXCEPT !.kind = "post", !.pc = "p_chat",
                                            !.chatId = c, !.content = body,
                                            !.found = getChat(chats, c).found]]
    /\ now' = now + 1
    /\ UNCHANGED <<chats, messages, currentIds, apiKey, running, last, calls, vectorStore>>

\* routes.ts 161-180: 404, 400, or getMessagesByChatId is called and awaited
PostValidate(t) ==
    /\ Resumes(t, "p_chat")
    /\ tasks' = [tasks EXCEPT ![t] =
          IF ~ @.found THEN Finish(@, 404, "not found")
          ELSE IF @.content = "" THEN Finish(@, 400, "invalid")
          ELSE [@ EXCEPT !.pc = "p_hist",
                         !.read = getMessagesByChatId(messages, tasks[t].chatId)]]
    /\ UNCHANGED <<chats, messages, currentIds, now, apiKey, running, last, calls, vectorStore>>

\* routes.ts 181-192 and processQuery 87-136: retrieval, the prompt, and
\* getChatCompletion up to its first await
PostQuery(t) ==
    /\ Resumes(t, "p_hist")
    /\ LET task == tasks[t]
           relevantSources == searchByKeywords(vectorStore.documents, task.content, TOP_K)
           prompt == PromptMessages(ConversationHistory(task.read), task.content)
           path == CompletionPath(apiKey)
       IN  tasks' = [tasks EXCEPT ![t] =
              [@ EXCEPT !.sources = relevantSources,
                        !.read = <<>>,
                        !.sent = IF path = "fetch" THEN CleanedMessages(prompt) ELSE <<>>,
                        !.response = IF path = "placeholder" THEN Str(PLACEHOLDER_RESPONSE)
                                     ELSE @,
                        !.failed = (path = "throw"),
                        !.pc = IF path = "fetch" THEN "q_fetch" ELSE "q_resp"]]
    /\ UNCHANGED <<chats, messages, currentIds, now, apiKey, running, last, calls, vectorStore>>

\* getChatCompletion 250-275: the fetch and response.json() settle
FetchSettles(t) ==
    /\ Resumes(t, "q_fetch")
    /\ \E outcome \in FetchOutcomes :
          tasks' = [tasks EXCEPT ![t] =
             [@ EXCEPT !.pc = "q_resp",
                       !.failed = (outcome = "error"),
                       !.response = CASE outcome = "text" -> Str("answer")
                                      [] outcome = "no_text" -> NotAString
                                      [] OTHER -> @]]
    /\ UNCHANGED <<chats, messages, currentIds, now, apiKey, running, last, calls, vectorStore>>

\* (mutant) a rejected completion is swallowed: the messages are stored anyway
UserMessageBeginSwallowing(t) ==
    /\ Resumes(t, "q_resp")
    /\ tasks' = [tasks EXCEPT ![t] = [@ EXCEPT !.pc = "cm_user",
                                              !.newId = currentIds.messages]]
    /\ currentIds' = [currentIds EXCEPT !.messages = @ + 1]
    /\ running' = Handler(t)
    /\ UNCHANGED <<chats, messages, now, apiKey, last, calls, vectorStore>>

\* processQuery 136-139 and 157-160: the completion failed (catch, rethrow,
\* 500), or createMessage(user) takes its id (storage 495)
UserMessageBegin(t) ==
    /\ Resumes(t, "q_resp")
    /\ IF tasks[t].failed
       THEN /\ tasks' = [tasks EXCEPT ![t] = Finish(@, 500, "provider")]
            /\ UNCHANGED <<currentIds, running>>
       ELSE /\ tasks' = [tasks EXCEPT ![t] = [@ EXCEPT !.pc = "cm_user",
                                                       !.newId = currentIds.messages]]
            /\ currentIds' = [currentIds EXCEPT !.messages = @ + 1]
            /\ running' = Handler(t)
    /\ UNCHANGED <<chats, messages, now, apiKey, last, calls, vectorStore>>

\* storage 497-518: createMessage(user) validates and stores; then the await
UserMessageStore(t) ==
    /\ running = Handler(t)
    /\ tasks[t].pc = "cm_user"
    /\ LET insert == UserInsert(tasks[t])
           message == NewMessage(tasks[t].newId, insert, now)
       IN  IF createMessageValid(insert)
           THEN /\ messages' = Append(messages, message)
                /\ tasks' = [tasks EXCEPT ![t] = [@ EXCEPT !.pc = "q_user", !.newId = 0,
                                                          !.created = Append(@, message)]]
           ELSE /\ tasks' = [tasks EXCEPT ![t] = Finish(@, 500, "validation")]
                /\ UNCHANGED messages
    /\ running' = None
    /\ UNCHANGED <<chats, currentIds, now, apiKey, last, calls, vectorStore>>

\* processQuery 146 and storage 495: createMessage(assistant) takes its id
AssistantMessageBegin(t) ==
    /\ Resumes(t, "q_user")
    /\ tasks' = [tasks EXCEPT ![t] = [@ EXCEPT !.pc = "cm_asst",
                                              !.newId = currentIds.messages]]
    /\ currentIds' = [currentIds EXCEPT !.messages = @ + 1]
    /\ running' = Handler(t)
    /\ UNCHANGED <<chats, messages, now, apiKey, last, calls, vectorStore>>

\* storage 497-518, processQuery 153-156, routes.ts 194-198: createMessage
\* (assistant) validates and stores, processQuery returns, the route answers
AssistantMessageStore(t) ==
    /\ running = Handler(t)
    /\ tasks[t].pc = "cm_asst"
    /\ LET insert == AssistantInsert(tasks[t])
           message == NewMessage(tasks[t].newId, insert, now)
       IN  IF createMessageValid(insert)
           THEN /\ messages' = Append(messages, message)
                /\ tasks' = [tasks EXCEPT ![t] =
                      [Finish(@, 200, "") EXCEPT
                          !.created = Append(@, message),
                          !.result = [content |-> tasks[t].response.v,
                                      sources |-> tasks[t].sources]]]
           ELSE /\ tasks' = [tasks EXCEPT ![t] = Finish(@, 500, "validation")]
                /\ UNCHANGED messages
    /\ running' = None
    /\ UNCHANGED <<chats, currentIds, now, apiKey, last, calls, vectorStore>>

(* DELETE /api/chats/:id *)

\* routes.ts 129-130 and storage 471: deleteChat reads the chat's messages
\* with getMessagesByChatId and awaits them
DeleteStart(t) ==
    /\ CanStart(t)
    /\ \E c \in ChatArgs :
          tasks' = [tasks EXCEPT ![t] = [@ EXCEPT !.kind = "delete", !.pc = "d_read",
                                            !.chatId = c,
                                            !.read = getMessagesByChatId(messages, c)]]
    /\ now' = now + 1
    /\ UNCHANGED <<chats, messages, currentIds, apiKey, running, last, calls, vectorStore>>

\* storage 472-476 and routes.ts 132-136: the messages read are deleted, then
\* the chat; 204 if there was one, else 404
DeleteFinish(t) ==
    /\ Resumes(t, "d_read")
    /\ messages' = deleteChatMessages(messages, tasks[t].read)
    /\ chats' = deleteChatEntry(chats, tasks[t].chatId)
    /\ tasks' = [tasks EXCEPT ![t] =
          Finish(@, IF HasChat(chats, @.chatId) THEN 204 ELSE 404, "")]
    /\ UNCHANGED <<currentIds, now, apiKey, running, last, calls, vectorStore>>

(* POST /api/chats *)

\* routes.ts 41-50 and storage 442: the body is parsed, createChat takes its id
CreateChatBegin(t) ==
    /\ CanStart(t)
    /\ \E u \in UserIds :
          tasks' = [tasks EXCEPT ![t] =
             [@ EXCEPT !.kind = "create", !.pc = "cc",
                       !.insert = [title |-> Str("New Chat"), userId |-> u],
                       !.newId = currentIds.chats]]
    /\ currentIds' = [currentIds EXCEPT !.chats = @ + 1]
    /\ running' = Handler(t)
    /\ now' = now + 1
    /\ UNCHANGED <<chats, messages, apiKey, last, calls, vectorStore>>

\* storage 445-457 and routes.ts 51: createChat validates and stores; 201
CreateChatStore(t) ==
    /\ running = Handler(t)
    /\ tasks[t].pc = "cc"
    /\ IF createChatValid(tasks[t].insert)
       THEN /\ chats' = Append(chats, NewChat(tasks[t].newId, tasks[t].insert, now))
            /\ tasks' = [tasks EXCEPT ![t] = [Finish(@, 201, "") EXCEPT !.chatId = tasks[t].newId]]
       ELSE /\ tasks' = [tasks EXCEPT ![t] = Finish(@, 500, "validation")]
            /\ UNCHANGED chats
    /\ running' = None
    /\ UNCHANGED <<messages, currentIds, now, apiKey, last, calls, vectorStore>>

(* setInterval(() => this.cleanupOldData(), 900000) *)

\* (mutant) the sweep runs on a thread of its own, whenever its time has come
TimerMayFireAnytime == running.by # "timer"

\* The event loop calls a timer callback only between two callbacks, never
\* inside a running function.
TimerMayFire == running = None

\* cleanupOldData 313
SweepMessages ==
    /\ TimerMayFire
    /\ messages' = cleanupOldMessages(messages)
    /\ running' = TimerAtChats
    /\ UNCHANGED <<chats, currentIds, now, apiKey, tasks, last, calls, vectorStore>>

\* cleanupOldData 314
SweepChats ==
    /\ running = TimerAtChats
    /\ LET swept == cleanupOldChats(chats, messages)
       IN  chats' = swept.chats /\ messages' = swept.messages
    /\ running' = TimerAtTrim
    /\ UNCHANGED <<currentIds, now, apiKey, tasks, last, calls, vectorStore>>

\* cleanupOldData 317-331
SweepTrim ==
    /\ running = TimerAtTrim
    /\ messages' = trimOldestMessages(messages)
    /\ running' = None
    /\ UNCHANGED <<chats, currentIds, now, apiKey, tasks, last, calls, vectorStore>>

NoCall == [op |-> "none", arg |-> 0, found |-> FALSE, ret |-> <<>>,
           before |-> [chats |-> <<>>, messages |-> <<>>,
                       currentIds |-> [chats |-> 1, messages |-> 1]],
           beforeTrim |-> <<>>, input |-> <<>>, threw |-> FALSE, status |-> 0,
           docs |-> <<>>]

\* MemStorage constructor 286-296 and GroqService constructor 191-206
Init ==
    /\ chats = <<>>
    /\ messages = <<>>
    /\ currentIds = [chats |-> 1, messages |-> 1]
    /\ now = 0
    /\ \E envKey \in {"", "gsk_key"}, nodeEnv \in {"development", "production"} :
          apiKey = ConstructorApiKey(envKey, nodeEnv)
    /\ tasks = [t \in TaskIds |-> IdleTask]
    /\ running = None
    /\ last = NoCall
    /\ calls = 0
    /\ vectorStore = LoadedVectorStore

Next ==
    \/ \E t \in TaskIds : PostStart(t)
    \/ \E t \in TaskIds : PostValidate(t)
    \/ \E t \in TaskIds : PostQuery(t)
    \/ \E t \in TaskIds : FetchSettles(t)
    \/ \E t \in TaskIds : UserMessageBegin(t)
    \/ \E t \in TaskIds : UserMessageStore(t)
    \/ \E t \in TaskIds : AssistantMessageBegin(t)
    \/ \E t \in TaskIds : AssistantMessageStore(t)
    \/ \E t \in TaskIds : DeleteStart(t)
    \/ \E t \in TaskIds : DeleteFinish(t)
    \/ \E t \in TaskIds : CreateChatBegin(t)
    \/ \E t \in TaskIds : CreateChatStore(t)
    \/ SweepMessages
    \/ SweepChats
    \/ SweepTrim

Spec == Init /\ [][Next]_vars

----------------------------------------------------------------------------
(* The store driven by one caller, each call awaited before the next *)

\* Map.set(id, entry): an existing key keeps its position and gets the new
\* value, a new key goes last
MapSet(entries, entry) ==
    IF entry.id \in Ids(entries)
    THEN [i \in DOMAIN entries |->
             IF entries[i].id = entry.id THEN entry ELSE entries[i]]
    ELSE Append(entries, entry)

\* (mutant) the id of a new chat taken from the size of the map
createChatBySize(st, insertChat) ==
    LET id == Len(st.chats) + 1
        taken == [st EXCEPT !.currentIds.chats = id + 1]
    IN  IF createChatValid(insertChat)
        THEN [taken EXCEPT !.chats = MapSet(@, NewChat(id, insertChat, st.now))]
        ELSE taken

\* createChat as one call on the store st = [chats, messages, currentIds, now]
createChat(st, insertChat) ==
    LET id == st.currentIds.chats
        taken == [st EXCEPT !.currentIds.chats = @ + 1]
    IN  IF createChatValid(insertChat)
        THEN [taken EXCEPT !.chats = Append(@, NewChat(id, insertChat, st.now))]
        ELSE taken

\* (mutant) the id of a new message taken from the size of the map
createMessageBySize(st, insertMessage) ==
    LET id == Len(st.messages) + 1
        taken == [st EXCEPT !.currentIds.messages = id + 1]
    IN  IF createMessageValid(insertMessage)
        THEN [taken EXCEPT !.messages = MapSet(@, NewMessage(id, insertMessage, st.now))]
        ELSE taken

\* createMessage as one call
createMessage(st, insertMessage) ==
    LET id == st.currentIds.messages
        taken == [st EXCEPT !.currentIds.messages = @ + 1]
    IN  IF createMessageValid(insertMessage)
        THEN [taken EXCEPT !.messages = Append(@, NewMessage(id, insertMessage, st.now))]
        ELSE taken

\* (mutant) deleteChat that reports success whatever Map.delete returned
deleteChatReportsSuccess(chs, msgs, id) ==
    [chats |-> deleteChatEntry(chs, id),
     messages |-> deleteChatMessages(msgs, getMessagesByChatId(msgs, id)),
     found |-> TRUE]

\* deleteChat as one call with nothing running at its await
deleteChat(chs, msgs, id) ==
    [chats |-> deleteChatEntry(chs, id),
     messages |-> deleteChatMessages(msgs, getMessagesByChatId(msgs, id)),
     found |-> HasChat(chs, id)]

(* The stores the calls start from: chats seeded with createChat and
   createMessage, one after the other. A seed is <<userId, chats, messages
   per chat, burst>>: count chats are created, each followed by its messages,
   and the clock advances by a millisecond before every burst-th creation. *)

\* the milliseconds that pass while the messages of one chat are created
MessageTicks(each, burst) == (each + burst - 1) \div burst

\* createdAt of the j-th chat of a seed
ChatTime(st, j, each, burst) ==
    st.now + ((j - 1) \div burst) + 1 + (j - 1) * MessageTicks(each, burst)

SeedChats(st, userId, count, each, burst) ==
    LET firstChat == st.currentIds.chats
        firstMessage == st.currentIds.messages
        newChats == [j \in 1..count |->
                        NewChat(firstChat + j - 1,
                                [title |-> Str("chat"), userId |-> userId],
                                ChatTime(st, j, each, burst))]
        newMessages == [p \in 1..(count * each) |->
                          LET j == ((p - 1) \div each) + 1
                              i == ((p - 1) % each) + 1
                          IN  NewMessage(firstMessage + p - 1,
                                         [chatId |-> Num(firstChat + j - 1),
                                          role |-> Str(IF i % 2 = 1 THEN "user" ELSE "assistant"),
                                          content |-> Str("text"),
                                          sources |-> NullSources],
                                         ChatTime(st, j, each, burst) + ((i - 1) \div burst) + 1)]
    IN  [chats |-> st.chats \o newChats,
         messages |-> st.messages \o newMessages,
         currentIds |-> [chats |-> firstChat + count,
                         messages |-> firstMessage + count * each],
         now |-> ChatTime(st, count, each, burst) + MessageTicks(each, burst)]

SeedShapes == {<<1, 25, 1>>, <<1, 25, 2>>, <<26, 1, 1>>, <<26, 1, 2>>, <<13, 21, 2>>,
               <<14, 19, 2>>}
Seeds == {<<u>> \o shape : u \in {NoUser, 1, 2}, shape \in SeedShapes}
Scenarios == {<<>>} \cup {<<a>> : a \in Seeds} \cup {<<a, b>> : a, b \in Seeds}

EmptyStore == [chats |-> <<>>, messages |-> <<>>,
               currentIds |-> [chats |-> 1, messages |-> 1], now |-> 0]

RECURSIVE Seeded(_)
Seeded(scenario) ==
    IF scenario = <<>> THEN EmptyStore
    ELSE LET seed == scenario[Len(scenario)]
         IN  SeedChats(Seeded(SubSeq(scenario, 1, Len(scenario) - 1)),
                       seed[1], seed[2], seed[3], seed[4])

StoreChatArgs == {1, 27}

InitStore ==
    /\ \E scenario \in Scenarios :
          LET st == Seeded(scenario)
          IN  /\ chats = st.chats
              /\ messages = st.messages
              /\ currentIds = st.currentIds
              /\ now = st.now
    /\ apiKey = ""
    /\ tasks = [t \in TaskIds |-> IdleTask]
    /\ running = None
    /\ last = NoCall
    /\ calls = 0
    /\ vectorStore = LoadedVectorStore

Called(op, arg) ==
    [NoCall EXCEPT !.op = op, !.arg = arg,
                   !.before = [chats |-> chats, messages |-> messages,
                               currentIds |-> currentIds]]

\* the timer callback cleanupOldData
StoreSweep ==
    /\ calls < MaxCalls
    /\ calls' = calls + 1
    /\ LET swept == cleanupOldData(chats, messages)
       IN  /\ chats' = swept.chats
           /\ messages' = swept.messages
           /\ last' = [Called("sweep", 0) EXCEPT !.beforeTrim = swept.beforeTrim]
    /\ UNCHANGED <<currentIds, now, apiKey, tasks, running, vectorStore>>

\* await storage.getMessagesByChatId(c)
StoreGet(c) ==
    /\ calls < MaxCalls
    /\ calls' = calls + 1
    /\ last' = [Called("get", c) EXCEPT !.ret = getMessagesByChatId(messages, c)]
    /\ UNCHANGED <<chats, messages, currentIds, now, apiKey, tasks, running, vectorStore>>

\* await storage.deleteChat(c)
StoreDelete(c) ==
    /\ calls < MaxCalls
    /\ calls' = calls + 1
    /\ LET deleted == deleteChat(chats, messages, c)
       IN  /\ chats' = deleted.chats
           /\ messages' = deleted.messages
           /\ last' = [Called("delete", c) EXCEPT !.found = deleted.found]
    /\ UNCHANGED <<currentIds, now, apiKey, tasks, running, vectorStore>>

NextStore ==
    \/ StoreSweep
    \/ \E c \in StoreChatArgs : StoreGet(c)
    \/ \E c \in StoreChatArgs : StoreDelete(c)

SpecStore == InitStore /\ [][NextStore]_vars

----------------------------------------------------------------------------
(* The store and its routes called one after the other from an empty store,
   with well-formed and malformed arguments (SpecCalls) *)

Missing == [t |-> "undefined", v |-> ""]

\* req.body of POST /api/chats as it reaches createChat
ChatInserts ==
    {[title |-> Str("chat"), userId |-> u] : u \in UserIds}
    \cup {[title |-> Missing, userId |-> NoUser]}

\* the argument of createMessage: well-formed, or one required field missing
\* or of the wrong type
GoodMessage(c) ==
    [chatId |-> Num(c), role |-> Str("user"), content |-> Str("text"),
     sources |-> NullSources]

MessageInserts ==
    {GoodMessage(c) : c \in ChatArgs}
    \cup {[GoodMessage(1) EXCEPT !.chatId = Str("1")],
          [GoodMessage(1) EXCEPT !.role = Missing],
          [GoodMessage(1) EXCEPT !.content = NotAString]}

\* routes.ts 130-136: DELETE /api/chats/:id answers 404 unless deleteChat
\* returned true
DeleteStatus(success) == IF success THEN 204 ELSE 404

\* routes.ts 113-119: PATCH /api/chats/:id answers 404 when updateChatTitle
\* returned undefined
PatchStatus(updatedChat) == IF updatedChat.found THEN 200 ELSE 404

StoreNow == [chats |-> chats, messages |-> messages, currentIds |-> currentIds,
             now |-> now]

InitCalls ==
    /\ chats = EmptyStore.chats
    /\ messages = EmptyStore.messages
    /\ currentIds = EmptyStore.currentIds
    /\ now = EmptyStore.now
    /\ apiKey = ""
    /\ tasks = [t \in TaskIds |-> IdleTask]
    /\ running = None
    /\ last = NoCall
    /\ calls = 0
    /\ vectorStore = LoadedVectorStore

\* await storage.createChat(insertChat)
CallCreateChat(insertChat) ==
    /\ calls < MaxOps
    /\ calls' = calls + 1
    /\ now' = now + 1
    /\ LET st == createChat([StoreNow EXCEPT !.now = now + 1], insertChat)
       IN  /\ chats' = st.chats
           /\ currentIds' = st.currentIds
           /\ last' = [Called("createChat", 0) EXCEPT
                          !.input = insertChat,
                          !.threw = ~ createChatValid(insertChat),
                          !.ret = SubSeq(st.chats, Len(chats) + 1, Len(st.chats))]
    /\ UNCHANGED <<messages, apiKey, tasks, running, vectorStore>>

\* await storage.createMessage(insertMessage)
CallCreateMessage(insertMessage) ==
    /\ calls < MaxOps
    /\ calls' = calls + 1
    /\ now' = now + 1
    /\ LET st == createMessage([StoreNow EXCEPT !.now = now + 1], insertMessage)
       IN  /\ messages' = st.messages
           /\ currentIds' = st.currentIds
           /\ last' = [Called("createMessage", 0) EXCEPT
                          !.input = insertMessage,
                          !.threw = ~ createMessageValid(insertMessage),
                          !.ret = SubSeq(st.messages, Len(messages) + 1, Len(st.messages))]
    /\ UNCHANGED <<chats, apiKey, tasks, running, vectorStore>>

\* PATCH /api/chats/:id with a title that passes the route's check
CallUpdateChatTitle(id) ==
    /\ calls < MaxOps
    /\ calls' = calls + 1
    /\ chats' = updateChatTitle(chats, id, "renamed")
    /\ LET updatedChat == getChat(updateChatTitle(chats, id, "renamed"), id)
       IN  last' = [Called("updateChatTitle", id) EXCEPT
                       !.found = updatedChat.found,
                       !.ret = IF updatedChat.found THEN <<updatedChat.chat>> ELSE <<>>,
                       !.status = PatchStatus(updatedChat)]
    /\ UNCHANGED <<messages, currentIds, now, apiKey, tasks, running, vectorStore>>

\* DELETE /api/chats/:id
CallDeleteChat(id) ==
    /\ calls < MaxOps
    /\ calls' = calls + 1
    /\ LET deleted == deleteChat(chats, messages, id)
       IN  /\ chats' = deleted.chats
           /\ messages' = deleted.messages
           /\ last' = [Called("deleteChat", id) EXCEPT
                          !.found = deleted.found,
                          !.status = DeleteStatus(deleted.found)]
    /\ UNCHANGED <<currentIds, now, apiKey, tasks, running, vectorStore>>

NextCalls ==
    \/ \E insertChat \in ChatInserts : CallCreateChat(insertChat)
    \/ \E insertMessage \in MessageInserts : CallCreateMessage(insertMessage)
    \/ \E id \in ChatArgs : CallUpdateChatTitle(id)
    \/ \E id \in ChatArgs : CallDeleteChat(id)

SpecCalls == InitCalls /\ [][NextCalls]_vars

----------------------------------------------------------------------------
(* Every operation of the store, called one after the other on a store that
   is empty, or holds a chat of 25 messages, or 26 chats of one user, or more
   than MAX_MESSAGES_TOTAL messages (SpecOps) *)

OpsScenarios ==
    {<<>>,
     << <<1, 1, 25, 2>> >>,
     << <<1, 26, 1, 1>> >>,
     << <<NoUser, 14, 19, 2>>, <<1, 14, 19, 2>> >>}

InitOps ==
    /\ \E scenario \in OpsScenarios :
          LET st == Seeded(scenario)
          IN  /\ chats = st.chats
              /\ messages = st.messages
              /\ currentIds = st.currentIds
              /\ now = st.now
    /\ apiKey = ""
    /\ tasks = [t \in TaskIds |-> IdleTask]
    /\ running = None
    /\ last = NoCall
    /\ calls = 0
    /\ vectorStore = LoadedVectorStore

NextOps ==
    \/ StoreSweep
    \/ \E c \in StoreChatArgs : StoreGet(c)
    \/ \E c \in StoreChatArgs : StoreDelete(c)
    \/ \E insertChat \in ChatInserts : calls < MaxCalls /\ CallCreateChat(insertChat)
    \/ \E insertMessage \in MessageInserts :
          calls < MaxCalls /\ CallCreateMessage(insertMessage)
    \/ \E id \in ChatArgs : calls < MaxCalls /\ CallUpdateChatTitle(id)
    \/ \E id \in ChatArgs : calls < MaxCalls /\ CallDeleteChat(id)

SpecOps == InitOps /\ [][NextOps]_vars

----------------------------------------------------------------------------
(* The VectorStore driven through its public methods, from the empty store
   (SpecRetriever) *)

EmptyVectorStore == [documents |-> <<>>, documentVectors |-> <<>>]

StoredVectors == {<<1, 1>>, <<0 - 1, 0>>, <<1>>}
QueryVectors == {<<1, 0>>, <<0 - 1, 1>>, <<0, 0>>, <<1>>, <<>>}
Queries == {"", " ", "faith hope", "hope of charity", "faith faith hope"}
Limits == {2, 5}
DocumentIds == {1, 2, 3, 4, 5}

InitRetriever ==
    /\ chats = <<>>
    /\ messages = <<>>
    /\ currentIds = [chats |-> 1, messages |-> 1]
    /\ now = 0
    /\ apiKey = ""
    /\ tasks = [t \in TaskIds |-> IdleTask]
    /\ running = None
    /\ last = NoCall
    /\ calls = 0
    /\ vectorStore = EmptyVectorStore

\* a document of the storage that the store does not hold yet
CanAdd(document) ==
    /\ Len(vectorStore.documents) < MaxDocs
    /\ document.id \notin Ids(vectorStore.documents)

RetrieverCall(op, arg, input) ==
    [NoCall EXCEPT !.op = op, !.arg = arg, !.input = input]

\* The caller asks once after each change of the store: no search or lookup
\* writes the store, so asking again finds what the first question would have.
CanAsk == last.op \in {"none", "addDocumentVector", "addDocumentWithoutEmbedding"}

AddDocumentVector(document, vector) ==
    /\ CanAdd(document)
    /\ vectorStore' = addDocumentVector(vectorStore, document, vector)
    /\ last' = RetrieverCall("addDocumentVector", document.id, vector)
    /\ UNCHANGED <<chats, messages, currentIds, now, apiKey, tasks, running, calls>>

AddDocumentWithoutEmbedding(document) ==
    /\ CanAdd(document)
    /\ vectorStore' = addDocumentWithoutEmbedding(vectorStore, document)
    /\ last' = RetrieverCall("addDocumentWithoutEmbedding", document.id, <<>>)
    /\ UNCHANGED <<chats, messages, currentIds, now, apiKey, tasks, running, calls>>

SearchSimilar(queryVector, limit) ==
    /\ CanAsk
    /\ LET found == searchSimilarDocuments(vectorStore, queryVector, limit)
       IN  last' = [RetrieverCall("searchSimilarDocuments", limit, queryVector) EXCEPT
                       !.threw = found.threw, !.ret = found.results]
    /\ UNCHANGED <<chats, messages, currentIds, now, apiKey, tasks, running, calls,
                   vectorStore>>

SearchKeywords(query, limit) ==
    /\ CanAsk
    /\ last' = [RetrieverCall("searchByKeywords", limit, query) EXCEPT
                    !.ret = searchByKeywords(vectorStore.documents, query, limit)]
    /\ UNCHANGED <<chats, messages, currentIds, now, apiKey, tasks, running, calls,
                   vectorStore>>

\* processQuery 89-122: the retrieval step and the lookup of every source
Retrieve(query) ==
    /\ CanAsk
    /\ LET relevantSources == searchByKeywords(vectorStore.documents, query, TOP_K)
       IN  last' = [RetrieverCall("retrieve", TOP_K, query) EXCEPT
                       !.ret = relevantSources,
                       !.docs = [i \in DOMAIN relevantSources |->
                                    getDocumentById(vectorStore.documents,
                                                    relevantSources[i].id)]]
    /\ UNCHANGED <<chats, messages, currentIds, now, apiKey, tasks, running, calls,
                   vectorStore>>

GetDocument(id) ==
    /\ CanAsk
    /\ LET document == getDocumentById(vectorStore.documents, id)
       IN  last' = [RetrieverCall("getDocumentById", id, <<>>) EXCEPT
                       !.found = document.found,
                       !.ret = IF document.found THEN <<document.document>> ELSE <<>>]
    /\ UNCHANGED <<chats, messages, currentIds, now, apiKey, tasks, running, calls,
                   vectorStore>>

NextRetriever ==
    \/ \E d \in DOMAIN Documents, vector \in StoredVectors :
          AddDocumentVector(Documents[d], vector)
    \/ \E d \in DOMAIN Documents : AddDocumentWithoutEmbedding(Documents[d])
    \/ \E queryVector \in QueryVectors, limit \in Limits : SearchSimilar(queryVector, limit)
    \/ \E query \in Queries, limit \in Limits : SearchKeywords(query, limit)
    \/ \E query \in Queries : Retrieve(query)
    \/ \E id \in DocumentIds : GetDocument(id)

SpecRetriever == InitRetriever /\ [][NextRetriever]_vars

(* cosineSimilarity on every pair of small vectors (SpecCosine) *)

Components == {0 - 1, 0, 1}
Vectors == UNION {[1..n -> Components] : n \in 0..MaxDim}

InitCosine ==
    /\ chats = <<>>
    /\ messages = <<>>
    /\ currentIds = [chats |-> 1, messages |-> 1]
    /\ now = 0
    /\ apiKey = ""
    /\ tasks = [t \in TaskIds |-> IdleTask]
    /\ running = None
    /\ \E vecA \in Vectors, vecB \in Vectors :
          last = RetrieverCall("vectors", 0, <<vecA, vecB>>)
    /\ calls = 0
    /\ vectorStore = EmptyVectorStore

Cosine ==
    /\ last.op = "vectors"
    /\ LET score == cosineSimilarity(last.input[1], last.input[2])
       IN  last' = [last EXCEPT !.op = "cosineSimilarity",
                                !.threw = score.threw,
                                !.ret = IF score.threw THEN <<>> ELSE <<score>>]
    /\ UNCHANGED <<chats, messages, currentIds, now, apiKey, tasks, running, calls,
                   vectorStore>>

\* the same call with the arguments exchanged, its outcome kept in docs
CosineExchanged ==
    /\ last.op = "cosineSimilarity"
    /\ last' = [last EXCEPT !.op = "cosineSimilarityExchanged",
                            !.docs = <<cosineSimilarity(last.input[2], last.input[1])>>]
    /\ UNCHANGED <<chats, messages, currentIds, now, apiKey, tasks, running, calls,
                   vectorStore>>

NextCosine == Cosine \/ CosineExchanged

SpecCosine == InitCosine /\ [][NextCosine]_vars

(* processQuery called with a history of any length, up to the request that
   getChatCompletion sends (SpecPrompt) *)

\* the i-th entry of a history: a user message, or an assistant message
\* with the sources it was stored with
HistoryEntry(i, role) ==
    [role |-> role, content |-> ToString(i),
     sources |-> IF role = "assistant"
                 THEN Sources(<<SourceOf(Documents[1], 1, 2)>>) ELSE NullSources]

Histories ==
    UNION {{[i \in 1..n |-> HistoryEntry(i, roles[i])] :
               roles \in [1..n -> {"user", "assistant"}]} : n \in 0..MaxHistory}

InitPrompt ==
    /\ chats = <<>>
    /\ messages = <<>>
    /\ currentIds = [chats |-> 1, messages |-> 1]
    /\ now = 0
    /\ apiKey = ConstructorApiKey("gsk_key", "production")
    /\ tasks = [t \in TaskIds |-> IdleTask]
    /\ running = None
    /\ \E conversationHistory \in Histories, query \in Bodies \ {""} :
          last = [NoCall EXCEPT !.op = "processQuery",
                                !.input = [conversationHistory |-> conversationHistory,
                                           query |-> query]]
    /\ calls = 0
    /\ vectorStore = LoadedVectorStore

\* processQuery 126-136 and getChatCompletion 236-257: the messages handed to
\* getChatCompletion (docs) and the messages of the request body (ret)
SendCompletionRequest ==
    /\ last.op = "processQuery"
    /\ CompletionPath(apiKey) = "fetch"
    /\ LET prompt == PromptMessages(last.input.conversationHistory, last.input.query)
       IN  last' = [last EXCEPT !.op = "getChatCompletion",
                                !.docs = prompt,
                                !.ret = CleanedMessages(prompt)]
    /\ UNCHANGED <<chats, messages, currentIds, now, apiKey, tasks, running, calls,
                   vectorStore>>

NextPrompt == SendCompletionRequest

SpecPrompt == InitPrompt /\ [][NextPrompt]_vars

----------------------------------------------------------------------------
(* Properties of the server (Spec) *)

PostDone(t) == tasks[t].kind = "post" /\ tasks[t].pc = "done"

\* C1: a processQuery call that succeeds has stored exactly two messages in
\* its chat, first a user message with the query as content and no sources,
\* then an assistant message with the completion text, and the sources it
\* returns are the sources stored on that assistant message.
C1_ProcessQueryPersistsPair ==
    \A t \in TaskIds :
        (PostDone(t) /\ tasks[t].status = 200) =>
            LET made == tasks[t].created
            IN  /\ Len(made) = 2
                /\ made[1].id < made[2].id
                /\ made[1].chatId = tasks[t].chatId
                /\ made[1].role = "user"
                /\ made[1].content = tasks[t].content
                /\ made[1].sources = NullSources
                /\ made[2].chatId = tasks[t].chatId
                /\ made[2].role = "assistant"
                /\ made[2].content = tasks[t].result.content
                /\ made[2].sources = Sources(tasks[t].result.sources)
                /\ HasChat(chats, tasks[t].chatId) =>
                       /\ made[1] \in Range(messages)
                       /\ made[2] \in Range(messages)

C1_Witness ==
    \E t \in TaskIds :
        /\ PostDone(t) /\ tasks[t].status = 200
        /\ Len(tasks[t].result.sources) = TOP_K
        /\ tasks[t].result.content = "answer"
        /\ tasks[t].created[2] \in Range(messages)

\* C2: when the completion provider fails, processQuery stores no message
\* (not the user message either) and the failure reaches the caller: the
\* handler ends with status 500.
C2_ProviderFailureStoresNothing ==
    \A t \in TaskIds :
        tasks[t].failed =>
            /\ tasks[t].created = <<>>
            /\ tasks[t].pc \in {"q_resp", "done"}
            /\ tasks[t].pc = "done" => tasks[t].status = 500

C2_Witness ==
    \E t \in TaskIds :
        /\ PostDone(t) /\ tasks[t].failed /\ tasks[t].status = 500
        /\ CompletionPath(apiKey) = "fetch"
        /\ \E u \in TaskIds : u # t /\ tasks[u].status = 200

\* C4: every stored message's chatId is the id of a stored chat.
C4_EveryMessageHasItsChat ==
    \A i \in DOMAIN messages : HasChat(chats, messages[i].chatId)

\* C5: the user message of a processQuery call is immediately followed, in
\* the creation order of its chat, by the assistant message of the same call:
\* no other call has stored a message of that chat between the two.
C5_PairIsAdjacent ==
    \A t \in TaskIds :
        Len(tasks[t].created) = 2 =>
            \A u \in TaskIds \ {t} :
                \A i \in DOMAIN tasks[u].created :
                    ~ /\ tasks[u].created[i].chatId = tasks[t].chatId
                      /\ tasks[t].created[1].id < tasks[u].created[i].id
                      /\ tasks[u].created[i].id < tasks[t].created[2].id

\* C6: while cleanupOldData runs, no createMessage or createChat is between
\* taking its id and storing its record, and a create that has started has
\* the thread until it has stored.
MidCreate(t) == tasks[t].pc \in {"cm_user", "cm_asst", "cc"}

C6_SweepExcludesCreate ==
    \A t \in TaskIds : MidCreate(t) => running = Handler(t)

C6_Witness ==
    /\ running.by = "timer"
    /\ \E t \in TaskIds : tasks[t].pc = "q_user"

----------------------------------------------------------------------------
(* Properties of the store (SpecStore) *)

MessagesOf(msgs, chatId) == SelectSeq(msgs, LAMBDA m : m.chatId = chatId)
TimesOf(s) == {s[i].createdAt : i \in DOMAIN s}
Swept == last.op = "sweep"

\* C3: after deleteChat(id) on a stored chat, getMessagesByChatId(id) returns
\* the empty sequence, no message with chatId = id is left in the store, and
\* getChat(id) reports absent.
C3_DeleteChatRemovesItsMessages ==
    (last.op = "delete" /\ last.found) =>
        /\ getMessagesByChatId(messages, last.arg) = <<>>
        /\ MessagesOf(messages, last.arg) = <<>>
        /\ ~ getChat(chats, last.arg).found

\* C7: getMessagesByChatId(chatId) returns at most 5 messages, they are the
\* most recently created messages of that chat, in ascending creation order,
\* and the call leaves the chats and the messages as they were.
C7_RecentMessagesInOrder ==
    last.op = "get" =>
        LET all == MessagesOf(messages, last.arg)
            ret == last.ret
            left == Ids(all) \ Ids(ret)
        IN  /\ Len(ret) <= 5
            /\ Len(ret) = Len(all) \/ Len(ret) = 5
            /\ \A i \in DOMAIN ret : ret[i].chatId = last.arg /\ ret[i].id \in Ids(all)
            /\ \A i, j \in DOMAIN ret : i < j => ret[i].id < ret[j].id
            /\ \A id \in left : \A i \in DOMAIN ret : id < ret[i].id
            /\ messages = last.before.messages
            /\ chats = last.before.chats

C7_Witness ==
    /\ last.op = "get"
    /\ Len(MessagesOf(messages, last.arg)) > 5
    /\ Len(last.ret) = 5
    /\ last.ret[4].createdAt = last.ret[5].createdAt
    /\ last.ret[3].createdAt < last.ret[4].createdAt

\* C8: after a sweep, a chat that held more than 20 messages holds exactly
\* 20, and every message of it that was kept was created after every message
\* of it that was evicted. (Read for the chats the other two ceilings leave
\* alone: the chat is still stored and the global trim removed nothing.)
C8_SweepKeepsNewestTwenty ==
    (Swept /\ messages = last.beforeTrim) =>
        \A c \in Ids(chats) :
            LET was == MessagesOf(last.before.messages, c)
                kept == MessagesOf(messages, c)
                evicted == Ids(was) \ Ids(kept)
            IN  Len(was) > 20 =>
                    /\ Len(kept) = 20
                    /\ \A e \in evicted : \A i \in DOMAIN kept : e < kept[i].id

\* C9: after a sweep every user owns at most 25 chats, the chats of a user
\* that were kept are at least as new (by createdAt) as the chats of that user
\* that were evicted, and no message of an evicted chat is left in the store.
ChatsOf(chs, userId) == SelectSeq(chs, LAMBDA c : c.userId = userId)

C9_AtMostTwentyFiveNewestChats ==
    Swept =>
        LET evicted == Ids(last.before.chats) \ Ids(chats)
        IN  /\ \A u \in {NoUser, 1, 2} :
                  LET was == ChatsOf(last.before.chats, u)
                      kept == ChatsOf(chats, u)
                      gone == SelectSeq(was, LAMBDA c : c.id \in evicted)
                  IN  /\ Len(kept) <= 25
                      /\ \A a \in TimesOf(gone) : \A b \in TimesOf(kept) : a <= b
            /\ Ids(chats) \subseteq Ids(last.before.chats)
            /\ \A i \in DOMAIN messages : messages[i].chatId \notin evicted

C9_Witness ==
    /\ Swept
    /\ Len(chats) < Len(last.before.chats)
    /\ \E i \in DOMAIN last.before.messages :
          /\ ~ HasChat(chats, last.before.messages[i].chatId)
          /\ HasChat(last.before.chats, last.before.messages[i].chatId)
    /\ \E i \in DOMAIN chats : chats[i].userId = NoUser
    /\ \E i \in DOMAIN chats : chats[i].userId = 1

\* C10: after a sweep the store holds at most 500 messages, and the messages
\* the global trim removed are the oldest of all: none of them is newer than
\* a message that was kept, by creation time or by creation order.
C10_GlobalTrimDropsOldest ==
    Swept =>
        LET trimmed == DeleteIds(last.beforeTrim, Ids(messages))
        IN  /\ Len(messages) <= 500
            /\ Ids(messages) \subseteq Ids(last.beforeTrim)
            /\ Len(last.beforeTrim) > 500 => Len(messages) = 500
            /\ \A a \in TimesOf(trimmed) : \A b \in TimesOf(messages) : a <= b
            /\ trimmed # <<>> => trimmed[Len(trimmed)].id < messages[1].id

C10_Witness ==
    /\ Swept
    /\ Len(last.beforeTrim) > 500
    /\ Len(messages) = 500
    /\ \E i \in DOMAIN last.beforeTrim :
          last.beforeTrim[i].createdAt = messages[1].createdAt
          /\ last.beforeTrim[i].id < messages[1].id

----------------------------------------------------------------------------
(* Properties of the store calls (SpecCalls) *)

\* C11: createMessage with a missing or wrong-typed chatId, role or content
\* fails with a validation error and writes nothing: the store after the
\* failed call (chats, messages and the id counters) equals the store before.
C11_FailedCreateMessageWritesNothing ==
    last.op = "createMessage" =>
        /\ last.threw <=> ~ createMessageValid(last.input)
        /\ last.threw =>
               /\ chats = last.before.chats
               /\ messages = last.before.messages
               /\ currentIds = last.before.currentIds

\* C12: deleteChat(id) and updateChatTitle(id, title) on an id that is not a
\* stored chat do not throw: deleteChat returns false, updateChatTitle
\* returns undefined, and the routes answer 404.
C12_MissingChatIsReportedNotThrown ==
    (last.op \in {"deleteChat", "updateChatTitle"}
        /\ ~ HasChat(last.before.chats, last.arg)) =>
        /\ ~ last.threw
        /\ ~ last.found
        /\ last.ret = <<>>
        /\ last.status = 404
        /\ chats = last.before.chats

C12_Witness ==
    /\ last.op = "deleteChat"
    /\ ~ HasChat(last.before.chats, last.arg)
    /\ last.before.chats # <<>>
    /\ \E i \in DOMAIN last.before.messages :
          last.before.messages[i].chatId = last.arg
    /\ last.status = 404

----------------------------------------------------------------------------
(* Properties of the retriever (SpecRetriever, SpecCosine) *)

KeywordSearched == last.op = "searchByKeywords"
VectorSearched == last.op = "searchSimilarDocuments"
IsSimilarity(score) == "dotProduct" \in DOMAIN score
KeywordAbove(x, y) == x.num * y.den > y.num * x.den
ScoreAbove(x, y) == IF IsSimilarity(x) THEN Above(x, y) ELSE KeywordAbove(x, y)

\* C13: for a non-empty query a search returns at most limit results, in
\* descending relevanceScore, results of equal score in ascending document
\* id (so a document matching all terms precedes one matching fewer).
C13_DescendingScoreThenAscendingId ==
    ((KeywordSearched /\ last.input \notin {"", " "})
        \/ (VectorSearched /\ ~ last.threw /\ vectorStore.documentVectors # <<>>)) =>
        /\ Len(last.ret) <= last.arg
        /\ \A i, j \in DOMAIN last.ret :
              i < j =>
                 /\ ~ ScoreAbove(last.ret[j].relevanceScore, last.ret[i].relevanceScore)
                 /\ ~ ScoreAbove(last.ret[i].relevanceScore, last.ret[j].relevanceScore)
                       => last.ret[i].id < last.ret[j].id

\* C14: for a non-empty query the keyword score of a document is
\* matchCount / termCount, the terms being the distinct query words longer
\* than 2 and matchCount the number of them the document contains; 0 when
\* there is no term.
Terms(query) ==
    {w \in {Keywords(query)[i] : i \in DOMAIN Keywords(query)} : WordLength(w) > 2}

C14_ScoreIsMatchedOverDistinctTerms ==
    (KeywordSearched /\ last.input \notin {"", " "}) =>
        \A i \in DOMAIN last.ret :
            LET document == getDocumentById(vectorStore.documents, last.ret[i].id).document
                terms == Terms(last.input)
                matchCount == Cardinality(terms \cap document.words)
                score == last.ret[i].relevanceScore
            IN  IF terms = {} THEN score.num = 0
                ELSE score.num * Cardinality(terms) = matchCount * score.den

InUnitInterval(score) ==
    IF IsSimilarity(score)
    THEN /\ score.dotProduct >= 0
         /\ score.dotProduct * score.dotProduct <= score.normA * score.normB
    ELSE 0 <= score.num /\ score.num <= score.den

C16_ScoresInUnitInterval ==
    (KeywordSearched \/ VectorSearched) =>
        \A i \in DOMAIN last.ret :
            /\ InUnitInterval(last.ret[i].relevanceScore)
            /\ last.ret[i].id \in Ids(vectorStore.documents)

\* C17: cosineSimilarity on two vectors of different lengths throws and
\* returns no number, also when a vector is empty or all zeros.
C17_LengthMismatchThrows ==
    (last.op = "cosineSimilarity" /\ Len(last.input[1]) # Len(last.input[2])) =>
        last.threw /\ last.ret = <<>>

C17_Witness ==
    /\ last.op = "cosineSimilarity"
    /\ last.input = << <<0, 0>>, <<1>> >>
    /\ last.threw

\* C18: a stored vector whose length differs from the query vector's does
\* not abort a vector search: the document is skipped and the search returns
\* the ranked results of the documents whose vector length matches.
MatchingVectors(store, queryVector) ==
    SelectSeq(store.documentVectors, LAMBDA e : Len(e.vector) = Len(queryVector))

C18_MismatchedVectorIsSkipped ==
    (VectorSearched /\ vectorStore.documentVectors # <<>>) =>
        LET matching == MatchingVectors(vectorStore, last.input)
        IN  /\ ~ last.threw
            /\ last.ret =
                  IF matching = <<>> THEN <<>>
                  ELSE searchSimilarDocuments(
                           [vectorStore EXCEPT !.documentVectors = matching],
                           last.input, last.arg).results

\* C19: retrieval is by vector search (only embedded documents are
\* returned) when the store holds an embedded document, and by keyword search
\* on the query text when it holds none.
C19_StrategyFollowsStoreContent ==
    last.op = "retrieve" =>
        IF vectorStore.documentVectors # <<>>
        THEN \A i \in DOMAIN last.ret :
                /\ IsSimilarity(last.ret[i].relevanceScore)
                /\ \E j \in DOMAIN vectorStore.documentVectors :
                      vectorStore.documentVectors[j].document.id = last.ret[i].id
        ELSE last.ret = searchByKeywords(vectorStore.documents, last.input, last.arg)

\* C20: getDocumentById(id) returns the document added with that id and
\* reports absent, without failing, when none was; processQuery finds the
\* document of every source it retrieved.
C20_LookupById ==
    /\ last.op = "getDocumentById" =>
           /\ ~ last.threw
           /\ last.found <=> last.arg \in Ids(vectorStore.documents)
           /\ last.found =>
                  /\ Len(last.ret) = 1
                  /\ last.ret[1].id = last.arg
                  /\ last.ret[1] \in Range(vectorStore.documents)
           /\ ~ last.found => last.ret = <<>>
    /\ last.op = "retrieve" =>
           /\ Len(last.docs) = Len(last.ret)
           /\ \A i \in DOMAIN last.ret :
                 /\ last.docs[i].found
                 /\ last.docs[i].document.id = last.ret[i].id
                 /\ last.docs[i].document.title = last.ret[i].title

C20_Witness ==
    /\ last.op = "getDocumentById"
    /\ last.found
    /\ Len(vectorStore.documents) = 3
    /\ last.ret[1] = vectorStore.documents[3]

----------------------------------------------------------------------------
(* Properties of the prompt and of the completion binding *)

Requested == last.op = "getChatCompletion"

\* C21: the messages processQuery hands to the completion provider are one
\* system message, then the last min(5, len(history)) history entries in
\* their order, then one user message with the new query: at most 7.
C21_PromptIsSystemHistoryQuery ==
    Requested =>
        LET history == last.input.conversationHistory
            kept == IF Len(history) < 5 THEN Len(history) ELSE 5
            prompt == last.docs
        IN  /\ Len(prompt) = kept + 2
            /\ Len(prompt) <= 7
            /\ prompt[1].role = "system"
            /\ \A i \in 2..Len(prompt) : prompt[i].role # "system"
            /\ \A i \in 1..kept : prompt[1 + i] = history[Len(history) - kept + i]
            /\ prompt[Len(prompt)].role = "user"
            /\ prompt[Len(prompt)].content = last.input.query

C21_Witness ==
    /\ Requested
    /\ Len(last.input.conversationHistory) = 7
    /\ Len(last.docs) = 7
    /\ last.docs[2].content = "3"

C23_RequestCarriesRoleAndContent ==
    Requested =>
        /\ Len(last.ret) = Len(last.docs)
        /\ \A i \in DOMAIN last.ret :
              /\ DOMAIN last.ret[i] = {"role", "content"}
              /\ last.ret[i].role = last.docs[i].role
              /\ last.ret[i].content = last.docs[i].content

C23_Witness ==
    /\ Requested
    /\ \E i \in DOMAIN last.docs :
          /\ last.docs[i].role = "assistant"
          /\ ~ last.docs[i].sources.isNull
          /\ last.ret[i] = [role |-> "assistant", content |-> last.docs[i].content]

\* C24: for two vectors of the same length, cosineSimilarity is 0 when one
\* of them is all zeros: both all zeros and both empty included.
IsZeroVector(vec) == \A i \in DOMAIN vec : vec[i] = 0

C24_ZeroVectorGivesZero ==
    (/\ last.op = "cosineSimilarity"
     /\ Len(last.input[1]) = Len(last.input[2])
     /\ IsZeroVector(last.input[1]) \/ IsZeroVector(last.input[2])) =>
        /\ ~ last.threw
        /\ Len(last.ret) = 1
        /\ last.ret[1].normA > 0 /\ last.ret[1].normB > 0
        /\ SameNumber(last.ret[1], Zero)

C24_Witness ==
    /\ last.op = "cosineSimilarity"
    /\ last.input = << <<1, 0 - 1>>, <<0, 0>> >>
    /\ last.ret = <<Zero>>

\* C25: for two vectors of the same length, cosineSimilarity(A, B) and
\* cosineSimilarity(B, A) are the same number.
C25_CosineIsSymmetric ==
    (/\ last.op = "cosineSimilarityExchanged"
     /\ Len(last.input[1]) = Len(last.input[2])) =>
        /\ ~ last.threw /\ ~ last.docs[1].threw
        /\ SameNumber(last.ret[1], last.docs[1])

C25_Witness ==
    /\ last.op = "cosineSimilarityExchanged"
    /\ last.input = << <<1, 0>>, <<1, 1>> >>
    /\ last.ret = <<Number(1, 1, 2)>>
    /\ last.docs = <<Number(1, 2, 1)>>

----------------------------------------------------------------------------
(* Properties of every store operation (SpecOps) *)

Removes(op) == op \in {"sweep", "delete", "deleteChat"}

\* C26: a stored message is never changed: after deleteChat or the sweep the
\* store holds the messages whose ids remain, with the fields and in the
\* order they had; after any other operation it holds the messages it held,
\* unchanged, with at most one new message appended.
C26_MessagesAreImmutable ==
    [][IF Removes(last'.op)
       THEN LET idsAfter == Ids(messages')
            IN  messages' = SelectSeq(messages, LAMBDA m : m.id \in idsAfter)
       ELSE /\ Len(messages') \in {Len(messages), Len(messages) + 1}
            /\ SubSeq(messages', 1, Len(messages)) = messages]_vars

C26_Witness ==
    /\ last.op = "createMessage"
    /\ Len(last.ret) = 1
    /\ Len(messages) < last.ret[1].id - 1
    /\ Len(messages) > 20

\* C30: chat ids and message ids are strictly increasing in creation order
\* and never assigned twice: a new id is the counter's value, the counter
\* then moves past it and never goes back, whatever was deleted or evicted
\* and whatever create call failed its validation.
C30_IdsNeverReused ==
    [][LET chatIds == Ids(chats)
           messageIds == Ids(messages)
       IN  /\ currentIds'.chats >= currentIds.chats
           /\ currentIds'.messages >= currentIds.messages
           /\ \A i \in DOMAIN chats' :
                 /\ chats'[i].id < currentIds'.chats
                 /\ chats'[i].id \in chatIds \/ chats'[i].id = currentIds.chats
                 /\ i > 1 => chats'[i - 1].id < chats'[i].id
           /\ \A i \in DOMAIN messages' :
                 /\ messages'[i].id < currentIds'.messages
                 /\ messages'[i].id \in messageIds \/ messages'[i].id = currentIds.messages
                 /\ i > 1 => messages'[i - 1].id < messages'[i].id
           /\ (last'.op = "createChat" /\ ~ last'.threw) =>
                 /\ Len(last'.ret) = 1
                 /\ last'.ret[1].id = currentIds.chats
           /\ (last'.op = "createMessage" /\ ~ last'.threw) =>
                 /\ Len(last'.ret) = 1
                 /\ last'.ret[1].id = currentIds.messages]_vars

C30_Witness ==
    /\ last.op = "createChat"
    /\ Len(last.ret) = 1
    /\ last.ret[1].id > Len(chats)
    /\ last.ret[1].id = currentIds.chats - 1

----------------------------------------------------------------------------
(* Further properties of the server and of the store *)

\* C27: a processQuery call stores no message or two, never one: when it
\* fails at any step, a completion that is not a string included, the store
\* holds no message of the call.
C27_FailedQueryStoresNothing ==
    \A t \in TaskIds :
        PostDone(t) =>
            /\ Len(tasks[t].created) \in {0, 2}
            /\ tasks[t].status # 200 => tasks[t].created = <<>>

\* C28: the sweep deletes a chat of a user only if that user had more than
\* 25 chats: the chats of a user with 25 chats or fewer all survive, whatever
\* chats of other users or without a user are stored.
C28_OnlyOverLimitOwnersLoseChats ==
    Swept =>
        \A i \in DOMAIN last.before.chats :
            LET chat == last.before.chats[i]
            IN  (chat.userId # NoUser /\ chat.id \notin Ids(chats)) =>
                    Len(ChatsOf(last.before.chats, chat.userId)) > MAX_CHATS_PER_USER

\* C29: deleteChat(id) for an id that is not stored leaves the chats and the
\* messages as they were.
C29_DeleteOfMissingChatChangesNothing ==
    (last.op = "delete" /\ ~ last.found) =>
        /\ chats = last.before.chats
        /\ messages = last.before.messages

====
